---- MODULE Spec2Model ----
(***************************************************************************)
(* Model of src/mermailmath.py: create_deck, open_cards,                   *)
(* check_for_combination and simulate_card_opening.                        *)
(*                                                                         *)
(* Card labels are strings.  A card definition (a Python dict) is a        *)
(* function from labels to integer counts.  Decks, hands and combinations  *)
(* (Python lists) are sequences of labels.  The print statements of the    *)
(* source (warnings, banners) write to stdout only and are not state.      *)
(***************************************************************************)
EXTENDS Integers, Sequences, FiniteSets, TLC

VARIABLES
    pc,                                   \* position of the running call
    card_definitions,                     \* argument: dict label -> count
    num_cards_to_open,                    \* argument: int
    target_combinations_to_track,         \* argument: list of lists
    num_simulations,                      \* argument: int
    i,                                    \* number of completed loop iterations (line 104)
    combination_results,                  \* local dict, line 100
    hands_with_no_target_combination_met, \* local int, line 101
    deck,                                 \* the deck list (line 105 / parameter of open_cards)
    opened_cards,                         \* the hand (line 106 / parameter of check_for_combination)
    combination,                          \* parameter of check_for_combination
    met,                                  \* return value of check_for_combination
    error,                                \* the exception that left the call, or "none"
    result,                               \* <<>> until the call returns, then <<return value>>
    matched_trials,                       \* history: trials whose hand held >= 1 tracked multiset
    expected_hits                         \* history: per tracked entry, the trials whose hand held it

vars == <<pc, card_definitions, num_cards_to_open, target_combinations_to_track,
          num_simulations, i, combination_results,
          hands_with_no_target_combination_met, deck, opened_cards, combination,
          met, error, result, matched_trials, expected_hits>>

----------------------------------------------------------------------------
(* Bounds of the model                                                     *)

MaxCount == 2      \* largest count of one label in a card definition
MaxDraw == 2       \* largest num_cards_to_open passed to simulate_card_opening
MaxTracked == 2    \* longest target_combinations_to_track
MaxTrials == 2     \* largest num_simulations
MaxLen == 3        \* longest deck, hand and combination of the single-call specifications

Labels == {"A", "B"}            \* labels the valid card definitions use
AllLabels == {"A", "B", "C"}    \* labels of the single-call specifications

SeqsUpTo(S, n) == UNION {[1..k -> S] : k \in 0..n}

EmptyDict == [x \in {} |-> 0]

\* Valid card definitions of the simulation: one-card decks (a draw can
\* exhaust them, and one label of the combinations is undefined in each) and
\* the decks holding both labels equally often.
ValidDefs ==
    { ("A" :> 1), ("B" :> 1) } \cup { ("A" :> n) @@ ("B" :> n) : n \in 1..MaxCount }

\* One card definition for each way create_deck rejects its argument.
MalformedDefs ==
    { EmptyDict,
      ("" :> 1),
      ("A" :> 0),
      ("A" :> -1),
      ("A" :> 1) @@ ("B" :> 0),
      ("A" :> 1) @@ ("" :> 1) }

CardDefs == ValidDefs \cup MalformedDefs

Combos == { <<>>, <<"A">>, <<"A", "A">>, <<"A", "B">>, <<"B", "A">> }

TrackedLists == SeqsUpTo(Combos, MaxTracked)

----------------------------------------------------------------------------
(* Python built-ins the source uses                                        *)

\* The order of Python's str comparison on the labels of the model.
Rank(label) ==
    CASE label = "" -> 0
      [] label = "A" -> 1
      [] label = "B" -> 2
      [] label = "C" -> 3

RECURSIVE Insert(_, _)
Insert(x, s) ==
    IF s = <<>> THEN <<x>>
    ELSE IF Rank(x) < Rank(Head(s)) THEN <<x>> \o s
    ELSE <<Head(s)>> \o Insert(x, Tail(s))

\* Fault: the key is tuple(combo), the sort is left out.
Sorted_Unsorted(s) == s

\* tuple(sorted(combo)): a stable ascending sort.
RECURSIVE Sorted(_)
Sorted(s) ==
    IF s = <<>> THEN <<>>
    ELSE Insert(s[Len(s)], Sorted(SubSeq(s, 1, Len(s) - 1)))

\* collections.Counter(seq): one pass over seq, adding 1 under each element.
RECURSIVE Counter(_)
Counter(s) ==
    IF s = <<>> THEN EmptyDict
    ELSE LET c == Counter(SubSeq(s, 1, Len(s) - 1))
             x == s[Len(s)]
         IN IF x \in DOMAIN c
            THEN [c EXCEPT ![x] = @ + 1]
            ELSE c @@ (x :> 1)

\* dict.get(key, default)
Get(d, key, default) == IF key \in DOMAIN d THEN d[key] ELSE default

\* Fault: one copy too few of every label.
Repeat_OneShort(x, n) == [k \in 1..(n - 1) |-> x]

\* [card_name] * count
RECURSIVE Repeat(_, _)
Repeat(x, n) == IF n <= 0 THEN <<>> ELSE <<x>> \o Repeat(x, n - 1)

Range(s) == {s[j] : j \in DOMAIN s}

\* s without its first occurrence of x
RECURSIVE RemoveFirst(_, _)
RemoveFirst(s, x) ==
    IF s = <<>> THEN <<>>
    ELSE IF Head(s) = x THEN Tail(s)
    ELSE <<Head(s)>> \o RemoveFirst(Tail(s), x)

\* random.shuffle(deck): any rearrangement of the list can come out.  Each
\* position takes one of the elements not placed yet.
RECURSIVE Shuffle(_)
Shuffle(s) ==
    IF s = <<>> THEN {<<>>}
    ELSE UNION { {<<x>> \o t : t \in Shuffle(RemoveFirst(s, x))} : x \in Range(s) }

----------------------------------------------------------------------------
(* create_deck, lines 4-27                                                 *)

\* card_definitions.items() in dict order; the model iterates in label order,
\* the shuffle of line 26 hides the order of the extended list.
RECURSIVE ItemsFrom(_, _)
ItemsFrom(d, keys) ==
    IF keys = {} THEN <<>>
    ELSE LET k == CHOOSE x \in keys : \A y \in keys : Rank(x) <= Rank(y)
         IN <<k>> \o ItemsFrom(d, keys \ {k})

Items(d) == ItemsFrom(d, DOMAIN d)

\* lines 16-17 and 21-24: the conditions under which create_deck raises.
CreateDeckRaises(defs) ==
    \/ defs = EmptyDict
    \/ \E card_name \in DOMAIN defs : card_name = ""
    \/ \E card_name \in DOMAIN defs : defs[card_name] <= 0

\* lines 19-25: deck.extend([card_name] * count) for each item.
RECURSIVE ExtendAll(_, _)
ExtendAll(defs, names) ==
    IF names = <<>> THEN <<>>
    ELSE Repeat(Head(names), defs[Head(names)]) \o ExtendAll(defs, Tail(names))

\* The outcomes of create_deck(defs): it raises ValueError or returns one of
\* the shuffles of the extended list.
create_deck(defs) ==
    IF CreateDeckRaises(defs)
    THEN {[raised |-> TRUE, deck |-> <<>>]}
    ELSE {[raised |-> FALSE, deck |-> d] : d \in Shuffle(ExtendAll(defs, Items(defs)))}

----------------------------------------------------------------------------
(* open_cards, lines 29-50                                                 *)

\* Fault: deck.pop() instead of deck.pop(0), the cards come off the end.
RECURSIVE OpenLoop_PopLast(_, _, _)
OpenLoop_PopLast(d, opened, k) ==
    IF k <= 0 THEN [opened_cards |-> opened, deck |-> d]
    ELSE IF d # <<>>
         THEN OpenLoop_PopLast(SubSeq(d, 1, Len(d) - 1), Append(opened, d[Len(d)]), k - 1)
         ELSE [opened_cards |-> opened, deck |-> d]

\* lines 44-49: the for loop with k iterations left; deck.pop(0) is Head/Tail.
RECURSIVE OpenLoop(_, _, _)
OpenLoop(d, opened, k) ==
    IF k <= 0 THEN [opened_cards |-> opened, deck |-> d]
    ELSE IF d # <<>>
         THEN OpenLoop(Tail(d), Append(opened, Head(d)), k - 1)
         ELSE [opened_cards |-> opened, deck |-> d]

\* Fault: range(num_cards_to_open + 1), one card too many is opened.
open_cards_OneMore(d, n) ==
    IF n < 0
    THEN [raised |-> TRUE, opened_cards |-> <<>>, deck |-> d]
    ELSE LET r == OpenLoop(d, <<>>, n + 1)
         IN [raised |-> FALSE, opened_cards |-> r.opened_cards, deck |-> r.deck]

\* The outcome of open_cards(d, n): raised, the returned list, and the deck
\* list after the call (the list is modified in place).
open_cards(d, n) ==
    IF n < 0
    THEN [raised |-> TRUE, opened_cards |-> <<>>, deck |-> d]
    ELSE LET r == OpenLoop(d, <<>>, n)
         IN [raised |-> FALSE, opened_cards |-> r.opened_cards, deck |-> r.deck]

----------------------------------------------------------------------------
(* check_for_combination, lines 52-74                                      *)

\* Fault: <= instead of < in line 72, one copy more than required is demanded.
check_for_combination_Strict(opened, combo) ==
    IF combo = <<>> THEN TRUE
    ELSE LET opened_counts == Counter(opened)
             combination_counts == Counter(combo)
         IN \A card_name \in DOMAIN combination_counts :
               ~(Get(opened_counts, card_name, 0) <= combination_counts[card_name])

check_for_combination(opened, combo) ==
    IF combo = <<>> THEN TRUE
    ELSE LET opened_counts == Counter(opened)
             combination_counts == Counter(combo)
         IN \A card_name \in DOMAIN combination_counts :
               ~(Get(opened_counts, card_name, 0) < combination_counts[card_name])

----------------------------------------------------------------------------
(* simulate_card_opening, lines 76-120                                     *)

\* line 100: {tuple(sorted(combo)): 0 for combo in target_combinations_to_track}
InitialResults(tracked) == [k \in {Sorted(tracked[j]) : j \in DOMAIN tracked} |-> 0]

\* Fault: a key is counted once per trial, however many tracked entries with
\* that key the hand satisfies.
TrackLoop_OncePerKey(results, met_any, hand, combos) ==
    LET Hit(k) == \E j \in DOMAIN combos :
                      Sorted(combos[j]) = k /\ check_for_combination(hand, combos[j])
    IN [combination_results |->
            [k \in DOMAIN results |-> IF Hit(k) THEN results[k] + 1 ELSE results[k]],
        met_any |-> met_any \/ \E j \in DOMAIN combos :
                                   check_for_combination(hand, combos[j])]

\* lines 108-112: the loop over the tracked combinations for one hand.
RECURSIVE TrackLoop(_, _, _, _)
TrackLoop(results, met_any, hand, combos) ==
    IF combos = <<>>
    THEN [combination_results |-> results, met_any |-> met_any]
    ELSE IF check_for_combination(hand, Head(combos))
         THEN TrackLoop([results EXCEPT ![Sorted(Head(combos))] = @ + 1],
                        TRUE, hand, Tail(combos))
         ELSE TrackLoop(results, met_any, hand, Tail(combos))

\* Fault: the condition of line 114 is left out.
NoMatchUpdate_Always(count, met_any) == count + 1

\* lines 114-115
NoMatchUpdate(count, met_any) == IF ~met_any THEN count + 1 ELSE count

\* Specification-side reading of "the hand satisfies the combination": the
\* hand holds every label at least as often as the combination does.
Occ(label, s) == Cardinality({j \in DOMAIN s : s[j] = label})

Satisfies(hand, combo) == \A label \in Range(combo) : Occ(label, hand) >= Occ(label, combo)

Init ==
    /\ pc = "start"
    /\ card_definitions \in CardDefs
    /\ num_cards_to_open \in -1..MaxDraw
    /\ target_combinations_to_track \in TrackedLists
    /\ num_simulations \in -1..MaxTrials
    /\ i = 0
    /\ combination_results = EmptyDict
    /\ hands_with_no_target_combination_met = 0
    /\ deck = <<>>
    /\ opened_cards = <<>>
    /\ combination = <<>>
    /\ met = FALSE
    /\ error = "none"
    /\ result = <<>>
    /\ matched_trials = 0
    /\ expected_hits = [j \in DOMAIN target_combinations_to_track |-> 0]

\* lines 95-103: the warnings (stdout only) and the two initialisations.
Start ==
    /\ pc = "start"
    /\ combination_results' = InitialResults(target_combinations_to_track)
    /\ hands_with_no_target_combination_met' = 0
    /\ pc' = "loop"
    /\ UNCHANGED <<card_definitions, num_cards_to_open, target_combinations_to_track,
                   num_simulations, i, deck, opened_cards, combination, met, error,
                   result, matched_trials, expected_hits>>

\* line 105 raises: the ValueError of create_deck leaves simulate_card_opening.
TrialCreateDeckRaises ==
    /\ pc = "loop"
    /\ i < num_simulations
    /\ CreateDeckRaises(card_definitions)
    /\ \E o \in create_deck(card_definitions) : o.raised
    /\ pc' = "error"
    /\ error' = "ValueError"
    /\ UNCHANGED <<card_definitions, num_cards_to_open, target_combinations_to_track,
                   num_simulations, i, combination_results,
                   hands_with_no_target_combination_met, deck, opened_cards,
                   combination, met, result, matched_trials, expected_hits>>

\* line 106 raises: the deck of line 105 exists, open_cards rejects the count.
TrialOpenCardsRaises ==
    /\ pc = "loop"
    /\ i < num_simulations
    /\ num_cards_to_open < 0
    /\ \E o \in create_deck(card_definitions) :
          /\ ~o.raised
          /\ open_cards(o.deck, num_cards_to_open).raised
          /\ deck' = open_cards(o.deck, num_cards_to_open).deck
    /\ pc' = "error"
    /\ error' = "ValueError"
    /\ UNCHANGED <<card_definitions, num_cards_to_open, target_combinations_to_track,
                   num_simulations, i, combination_results,
                   hands_with_no_target_combination_met, opened_cards,
                   combination, met, result, matched_trials, expected_hits>>

\* lines 104-115: one iteration of the simulation loop.
Trial ==
    /\ pc = "loop"
    /\ i < num_simulations
    /\ \E o \in create_deck(card_definitions) :
          /\ ~o.raised
          /\ LET r == open_cards(o.deck, num_cards_to_open)
                 t == TrackLoop(combination_results, FALSE, r.opened_cards,
                                target_combinations_to_track)
             IN /\ ~r.raised
                /\ deck' = r.deck
                /\ opened_cards' = r.opened_cards
                /\ combination_results' = t.combination_results
                /\ hands_with_no_target_combination_met' =
                      NoMatchUpdate(hands_with_no_target_combination_met, t.met_any)
                /\ matched_trials' =
                      IF \E j \in DOMAIN target_combinations_to_track :
                            Satisfies(r.opened_cards, target_combinations_to_track[j])
                      THEN matched_trials + 1 ELSE matched_trials
                /\ expected_hits' =
                      [j \in DOMAIN target_combinations_to_track |->
                          IF Satisfies(r.opened_cards, target_combinations_to_track[j])
                          THEN expected_hits[j] + 1 ELSE expected_hits[j]]
    /\ i' = i + 1
    /\ UNCHANGED <<pc, card_definitions, num_cards_to_open,
                   target_combinations_to_track, num_simulations, combination, met,
                   error, result>>

\* lines 117-120: range(num_simulations) is exhausted (at once when it is <= 0).
Return ==
    /\ pc = "loop"
    /\ ~(i < num_simulations)
    /\ result' = << [combination_results |-> combination_results,
                     hands_with_no_target_combination_met |->
                         hands_with_no_target_combination_met] >>
    /\ pc' = "done"
    /\ UNCHANGED <<card_definitions, num_cards_to_open, target_combinations_to_track,
                   num_simulations, i, combination_results,
                   hands_with_no_target_combination_met, deck, opened_cards,
                   combination, met, error, matched_trials, expected_hits>>

Next == Start \/ TrialCreateDeckRaises \/ TrialOpenCardsRaises \/ Trial \/ Return

Spec == Init /\ [][Next]_vars

----------------------------------------------------------------------------
(* Single calls of the three helper functions, on arbitrary arguments      *)

\* What the variables of simulate_card_opening hold while a helper is called alone.
NoSimulation ==
    /\ target_combinations_to_track = <<>>
    /\ num_simulations = 0
    /\ i = 0
    /\ combination_results = EmptyDict
    /\ hands_with_no_target_combination_met = 0
    /\ result = <<>>
    /\ matched_trials = 0
    /\ expected_hits = <<>>

UnitDefs == (UNION {[D -> 1..MaxCount] : D \in (SUBSET AllLabels) \ {{}}}) \cup MalformedDefs

InitCreateDeck ==
    /\ pc = "create_deck"
    /\ card_definitions \in UnitDefs
    /\ num_cards_to_open = 0
    /\ deck = <<>>
    /\ opened_cards = <<>>
    /\ combination = <<>>
    /\ met = FALSE
    /\ error = "none"
    /\ NoSimulation

\* create_deck returns, line 27
CallCreateDeckReturns ==
    /\ pc = "create_deck"
    /\ \E o \in create_deck(card_definitions) :
          /\ ~o.raised
          /\ deck' = o.deck
    /\ pc' = "returned"
    /\ UNCHANGED <<card_definitions, num_cards_to_open, target_combinations_to_track,
                   num_simulations, i, combination_results,
                   hands_with_no_target_combination_met, opened_cards, combination,
                   met, error, result, matched_trials, expected_hits>>

\* create_deck raises, lines 17, 22, 24
CallCreateDeckRaises ==
    /\ pc = "create_deck"
    /\ \E o \in create_deck(card_definitions) : o.raised
    /\ pc' = "raised"
    /\ error' = "ValueError"
    /\ UNCHANGED <<card_definitions, num_cards_to_open, target_combinations_to_track,
                   num_simulations, i, combination_results,
                   hands_with_no_target_combination_met, deck, opened_cards,
                   combination, met, result, matched_trials, expected_hits>>

NextCreateDeck == CallCreateDeckReturns \/ CallCreateDeckRaises

SpecCreateDeck == InitCreateDeck /\ [][NextCreateDeck]_vars

InitOpenCards ==
    /\ pc = "open_cards"
    /\ card_definitions = EmptyDict
    /\ deck \in SeqsUpTo(AllLabels, MaxLen)
    /\ num_cards_to_open \in -1..(MaxLen + 1)
    /\ opened_cards = <<>>
    /\ combination = <<>>
    /\ met = FALSE
    /\ error = "none"
    /\ NoSimulation

\* open_cards returns, line 50
CallOpenCardsReturns ==
    /\ pc = "open_cards"
    /\ LET r == open_cards(deck, num_cards_to_open)
       IN /\ ~r.raised
          /\ deck' = r.deck
          /\ opened_cards' = r.opened_cards
    /\ pc' = "returned"
    /\ UNCHANGED <<card_definitions, num_cards_to_open, target_combinations_to_track,
                   num_simulations, i, combination_results,
                   hands_with_no_target_combination_met, combination, met, error,
                   result, matched_trials, expected_hits>>

\* open_cards raises, line 41
CallOpenCardsRaises ==
    /\ pc = "open_cards"
    /\ LET r == open_cards(deck, num_cards_to_open)
       IN /\ r.raised
          /\ deck' = r.deck
    /\ pc' = "raised"
    /\ error' = "ValueError"
    /\ UNCHANGED <<card_definitions, num_cards_to_open, target_combinations_to_track,
                   num_simulations, i, combination_results,
                   hands_with_no_target_combination_met, opened_cards, combination,
                   met, result, matched_trials, expected_hits>>

NextOpenCards == CallOpenCardsReturns \/ CallOpenCardsRaises

SpecOpenCards == InitOpenCards /\ [][NextOpenCards]_vars

InitCheck ==
    /\ pc = "check_for_combination"
    /\ card_definitions = EmptyDict
    /\ num_cards_to_open = 0
    /\ deck = <<>>
    /\ opened_cards \in SeqsUpTo(AllLabels, MaxLen)
    /\ combination \in SeqsUpTo(AllLabels, MaxLen)
    /\ met = FALSE
    /\ error = "none"
    /\ NoSimulation

\* check_for_combination returns, lines 66, 73, 74
CallCheckForCombination ==
    /\ pc = "check_for_combination"
    /\ met' = check_for_combination(opened_cards, combination)
    /\ pc' = "returned"
    /\ UNCHANGED <<card_definitions, num_cards_to_open, target_combinations_to_track,
                   num_simulations, i, combination_results,
                   hands_with_no_target_combination_met, deck, opened_cards,
                   combination, error, result, matched_trials, expected_hits>>

NextCheck == CallCheckForCombination

SpecCheck == InitCheck /\ [][NextCheck]_vars

----------------------------------------------------------------------------
(* Properties                                                              *)

Min(a, b) == IF a < b THEN a ELSE b

RECURSIVE SumOver(_, _)
SumOver(f, S) ==
    IF S = {} THEN 0
    ELSE LET x == CHOOSE y \in S : TRUE IN f[x] + SumOver(f, S \ {x})

\* The rearrangements of s: the sequences over the same positions that hold
\* every label as often as s does.
Rearrangements(s) ==
    {t \in [DOMAIN s -> Range(s)] : \A label \in Range(s) : Occ(label, t) = Occ(label, s)}

\* The canonical key of a multiset of labels: its one ascending rearrangement.
CanonicalKey(combo) ==
    CHOOSE t \in Rearrangements(combo) :
        \A a, b \in DOMAIN t : a < b => Rank(t[a]) <= Rank(t[b])

Tracked == {target_combinations_to_track[j] : j \in DOMAIN target_combinations_to_track}

\* A CardDefinition as section 3 of the specification defines it.
WellFormed(defs) ==
    /\ DOMAIN defs # {}
    /\ \A label \in DOMAIN defs : label # "" /\ defs[label] > 0

ValidRun ==
    /\ WellFormed(card_definitions)
    /\ num_cards_to_open >= 0
    /\ num_simulations >= 0

InLoop == pc \in {"loop", "done", "error"}

\* C1: every counter of combination_results is at most the number of
\* completed trials, and at most num_simulations when the call has returned.
C1_HitCountAtMostTrials ==
    (ValidRun /\ InLoop) =>
        \A k \in DOMAIN combination_results :
            /\ combination_results[k] <= i
            /\ pc = "done" => combination_results[k] <= num_simulations

\* C2: a negative num_simulations never returns a result, and with
\* num_simulations = 0 the returned counters are all 0.
C2_NegativeTrialsRejected ==
    /\ num_simulations < 0 => (pc # "done" /\ result = <<>>)
    /\ (num_simulations = 0 /\ pc = "done") =>
          /\ error = "none"
          /\ \A k \in DOMAIN result[1].combination_results :
                 result[1].combination_results[k] = 0
          /\ result[1].hands_with_no_target_combination_met = 0

\* C3: with a malformed card definition or a negative draw count, and any
\* num_simulations >= 0, the call never returns a result and no counter moves.
C3_ConfigErrorBeforeAnyTrial ==
    (num_simulations >= 0 /\ (~WellFormed(card_definitions) \/ num_cards_to_open < 0)) =>
        /\ pc # "done"
        /\ result = <<>>
        /\ i = 0
        /\ hands_with_no_target_combination_met = 0
        /\ \A k \in DOMAIN combination_results : combination_results[k] = 0

\* The part of C4 that does not depend on which combinations are tracked:
\* with draw count 0 every hand is empty and no non-empty combination is hit.
C4_EmptyHands ==
    /\ opened_cards = <<>>
    /\ \A combo \in Tracked :
          (combo # <<>> /\ InLoop) => combination_results[CanonicalKey(combo)] = 0

\* C4 as stated: with draw count 0 every hand is empty, every non-empty
\* tracked combination's counter is 0, and the no-match counter is
\* num_simulations whenever some non-empty combination is tracked.
C4_Original ==
    (ValidRun /\ num_cards_to_open = 0) =>
        /\ C4_EmptyHands
        /\ (pc = "done" /\ \E combo \in Tracked : combo # <<>>) =>
               hands_with_no_target_combination_met = num_simulations

\* C4 amended: the no-match counter is num_simulations whenever some
\* non-empty combination and no empty combination is tracked; when the empty
\* combination is tracked, every trial matches it and the counter stays 0.
C4_DrawZero ==
    (ValidRun /\ num_cards_to_open = 0) =>
        /\ C4_EmptyHands
        /\ (pc = "done" /\ (\E combo \in Tracked : combo # <<>>) /\ <<>> \notin Tracked) =>
               hands_with_no_target_combination_met = num_simulations
        /\ (InLoop /\ <<>> \in Tracked) => hands_with_no_target_combination_met = 0

C4_Witness ==
    /\ pc = "done"
    /\ ValidRun
    /\ num_cards_to_open = 0
    /\ num_simulations >= 2
    /\ <<>> \notin Tracked
    /\ Len(target_combinations_to_track) >= 2
    /\ hands_with_no_target_combination_met = num_simulations

\* C5: the no-match counter plus the number of trials whose hand satisfied at
\* least one tracked combination is the number of completed trials; it lies
\* in 0..i, the sum is num_simulations at the return, and with nothing
\* tracked the no-match counter counts every trial.
C5_NoMatchPlusMatched ==
    /\ hands_with_no_target_combination_met + matched_trials = i
    /\ 0 <= hands_with_no_target_combination_met
    /\ hands_with_no_target_combination_met <= i
    /\ (pc = "done" /\ num_simulations >= 0) =>
          /\ hands_with_no_target_combination_met + matched_trials = num_simulations
          /\ result[1].hands_with_no_target_combination_met
                 = num_simulations - matched_trials
    /\ target_combinations_to_track = <<>> => hands_with_no_target_combination_met = i

C5_Witness ==
    /\ pc = "done"
    /\ num_simulations >= 2
    /\ hands_with_no_target_combination_met = 1
    /\ matched_trials = 1

\* C6: check_for_combination returns true exactly when the hand holds every
\* label of the combination at least as often as the combination does; the
\* empty combination matches, labels outside the combination do not count,
\* and rearranging the hand or the combination changes nothing.
C6_MatchIffMultisetIncluded ==
    pc = "returned" =>
        /\ met <=> Satisfies(opened_cards, combination)
        /\ combination = <<>> => met
        /\ LET InCombination(label) == label \in Range(combination)
           IN check_for_combination(SelectSeq(opened_cards, InCombination), combination) = met
        /\ \A h \in Rearrangements(opened_cards) :
               \A c \in Rearrangements(combination) :
                   check_for_combination(h, c) = met

C6_Witness ==
    /\ pc = "returned"
    /\ met
    /\ Len(combination) = 2
    /\ combination[1] = combination[2]
    /\ \E label \in Range(opened_cards) : label \notin Range(combination)

\* The decks a card definition describes: the sequences that hold every
\* label exactly as often as its count, and nothing else.
AllDecks(defs) ==
    {t \in [1..SumOver(defs, DOMAIN defs) -> DOMAIN defs] :
        \A label \in DOMAIN defs : Occ(label, t) = defs[label]}

\* C7: the deck create_deck returns for a valid card definition is as long
\* as the sum of the counts, holds each label exactly as often as its count
\* and no other label; and the results the call can produce are all such
\* sequences.
C7_DeckIsTheDefinedMultiset ==
    /\ pc = "returned" =>
          /\ WellFormed(card_definitions)
          /\ Len(deck) = SumOver(card_definitions, DOMAIN card_definitions)
          /\ \A label \in DOMAIN card_definitions :
                 Occ(label, deck) = card_definitions[label]
          /\ Range(deck) \subseteq DOMAIN card_definitions
    /\ (pc = "create_deck" /\ WellFormed(card_definitions)) =>
          AllDecks(card_definitions)
              = {o.deck : o \in {x \in create_deck(card_definitions) : ~x.raised}}

C7_Witness ==
    /\ pc = "returned"
    /\ Len(deck) >= 4
    /\ Cardinality(DOMAIN card_definitions) >= 2
    /\ \E a, b \in DOMAIN deck : a < b /\ Rank(deck[a]) > Rank(deck[b])

\* C8: open_cards with n >= 0 returns the first min(n, len(deck)) cards in
\* order and removes exactly those from the deck, so hand \o rest is the
\* deck before the call; with n > len(deck) it returns the whole deck and
\* leaves it empty; with n < 0 it raises and the deck is unchanged.
C8_OpenCardsTakesThePrefix ==
    [][ (pc = "open_cards" /\ pc' # pc) =>
            IF num_cards_to_open >= 0
            THEN LET m == Min(num_cards_to_open, Len(deck))
                 IN /\ pc' = "returned"
                    /\ error' = "none"
                    /\ opened_cards' = SubSeq(deck, 1, m)
                    /\ deck' = SubSeq(deck, m + 1, Len(deck))
                    /\ opened_cards' \o deck' = deck
                    /\ num_cards_to_open > Len(deck) =>
                           (opened_cards' = deck /\ deck' = <<>>)
            ELSE /\ pc' = "raised"
                 /\ error' = "ValueError"
                 /\ deck' = deck
                 /\ opened_cards' = opened_cards ]_vars

C8_Witness ==
    /\ pc = "returned"
    /\ num_cards_to_open = 2
    /\ Len(opened_cards) = 2
    /\ opened_cards[1] # opened_cards[2]
    /\ Len(deck) = 1

SameMultiset(a, b) == \A label \in Range(a) \cup Range(b) : Occ(label, a) = Occ(label, b)

\* C9: from the initialisation on, the keys of combination_results are
\* exactly the canonical keys of the tracked combinations: entries with the
\* same multiset share one key, entries with different multisets never do,
\* and no trial adds or removes a key; the returned mapping has these keys.
C9_KeysAreTheDistinctMultisets ==
    InLoop =>
        /\ DOMAIN combination_results = {CanonicalKey(combo) : combo \in Tracked}
        /\ \A a, b \in Tracked : (Sorted(a) = Sorted(b)) <=> SameMultiset(a, b)
        /\ pc = "done" =>
               DOMAIN result[1].combination_results
                   = {CanonicalKey(combo) : combo \in Tracked}

C9_Witness ==
    /\ pc = "done"
    /\ i >= 1
    /\ Len(target_combinations_to_track) = 2
    /\ target_combinations_to_track[1] # target_combinations_to_track[2]
    /\ Cardinality(DOMAIN combination_results) = 1

\* C10: the counter under key k is the number of pairs (trial, tracked entry
\* with key k) in which the trial's hand satisfies the entry; the sum of all
\* counters lies between the number of trials that matched something
\* (completed trials minus the no-match counter) and that number times the
\* length of the tracked list.
C10_CounterSumsMatchingEntries ==
    InLoop =>
        /\ \A k \in DOMAIN combination_results :
               combination_results[k] =
                   SumOver(expected_hits,
                           {j \in DOMAIN target_combinations_to_track :
                               CanonicalKey(target_combinations_to_track[j]) = k})
        /\ LET total == SumOver(combination_results, DOMAIN combination_results)
               matched == i - hands_with_no_target_combination_met
           IN /\ matched <= total
              /\ total <= matched * Len(target_combinations_to_track)
        /\ pc = "done" => result[1].combination_results = combination_results

C10_Witness ==
    /\ pc = "done"
    /\ num_simulations = 2
    /\ Len(target_combinations_to_track) = 2
    /\ target_combinations_to_track[1] # target_combinations_to_track[2]
    /\ \E k \in DOMAIN combination_results : combination_results[k] = 4

====
